---- MODULE Spec2Model ----
(***************************************************************************)
(* Model of the RP2350 button driver's ButtonController (src/src/button.rs) *)
(* and its configuration (src/src/config.rs): the sample-count debounce    *)
(* filter, its edge events, the press counter and the coupled LED state.   *)
(***************************************************************************)
EXTENDS Integers, Sequences, FiniteSets

VARIABLES
    ctrl,   \* the ButtonController: a record of its seven fields
    op,     \* the operation that produced the current state
    args,   \* the arguments of that operation
    event,  \* the ButtonEvent returned by the last update ("NoCall" otherwise)
    hist0,  \* what was observable at construction or at the last reset
    hist,   \* one entry per update since construction or the last reset
    led,      \* the LedController of led.rs: a record of its two fields
    led_ret,  \* the LedState returned by the last toggle ("NoCall" before any)
    led_log,  \* one entry per toggle since LedController::new
    pc,     \* where the main task stands in run_button_loop
    pins,   \* the levels of the button input pin and of the LED output pin
    iter,   \* the pin and controller accesses of the current loop iteration
    twin    \* a second controller fed the same samples, for comparing two runs

button_vars == <<ctrl, op, args, event, hist0, hist>>
led_vars == <<led, led_ret, led_log>>
loop_vars == <<pc, pins, iter>>
vars == <<ctrl, op, args, event, hist0, hist, led, led_ret, led_log,
          pc, pins, iter, twin>>

----------------------------------------------------------------------------
(* Configuration constants: src/src/config.rs *)

DEBOUNCE_DELAY_MS == 5
MIN_DEBOUNCE_DELAY_MS == 1
MAX_DEBOUNCE_DELAY_MS == 100
DEBOUNCE_COUNT == 5
\* src/config.rs, the configuration led.rs reads
BLINK_DELAY_MS == 500

----------------------------------------------------------------------------
(* Bounds of the model *)

\* updates per controller lifetime when the threshold is fixed (SpecFixed)
MaxSamples == 9
\* updates since construction or the last reset under all operations (Spec)
MaxCalls == 5
\* toggles of one LedController (SpecLed)
MaxToggles == 100
\* thresholds passed to with_debounce and set_debounce_threshold: 0..MaxThreshold
MaxThreshold == 3
\* delays passed to with_debounce and set_debounce_delay in SpecClamp: 0..MaxDelayArg
MaxDelayArg == 103

\* bits of debounce_count and debounce_threshold (u32 in the source, scaled down)
CountBits == 3
\* updates per controller lifetime with the threshold swept up to u32_MAX (SpecWidth)
MaxWidthSamples == 9

\* iterations of run_button_loop (SpecLoop)
MaxLoopIterations == 7

\* updates of a pair of controllers (SpecTwin)
MaxTwinCalls == 4

\* delays requested under Spec and SpecFixed: below, at, inside and above the range
DelayInputs == {0, DEBOUNCE_DELAY_MS, MAX_DEBOUNCE_DELAY_MS, 1000}
\* delays requested under SpecClamp: a full sweep of the range and far above it
DelayArgs == (0 .. MaxDelayArg) \cup {1000, 2147483647}
Thresholds == 0 .. MaxThreshold

----------------------------------------------------------------------------
(* Free functions of button.rs *)

\* the value standing for a panic of u64::clamp (its assert!(min <= max))
PANIC == 0 - 1

\* core::cmp::Ord::clamp as called by clamp_debounce_delay
clamp(x, min, max) ==
    IF min > max THEN PANIC
    ELSE IF x < min THEN min
    ELSE IF x > max THEN max
    ELSE x

\* mutant: the upper bound is forgotten
clamp_debounce_delay_low_only(delay_ms) ==
    IF delay_ms < MIN_DEBOUNCE_DELAY_MS THEN MIN_DEBOUNCE_DELAY_MS ELSE delay_ms

\* mutant: a delay above the range wraps around instead of saturating
clamp_debounce_delay_wraps(delay_ms) ==
    IF delay_ms < MIN_DEBOUNCE_DELAY_MS THEN MIN_DEBOUNCE_DELAY_MS
    ELSE IF delay_ms > MAX_DEBOUNCE_DELAY_MS THEN delay_ms - MAX_DEBOUNCE_DELAY_MS
    ELSE delay_ms

clamp_debounce_delay(delay_ms) ==
    clamp(delay_ms, MIN_DEBOUNCE_DELAY_MS, MAX_DEBOUNCE_DELAY_MS)

led_state_to_level(state) == state = "On"

\* mutant: the input is read as active-high
gpio_to_button_state_active_high(gpio_level) ==
    IF gpio_level THEN "Pressed" ELSE "Released"

gpio_to_button_state(gpio_level) ==
    IF gpio_level THEN "Released" ELSE "Pressed"

----------------------------------------------------------------------------
(* The counter type of ButtonController *)

\* the largest value of debounce_count and debounce_threshold
u32_MAX == 2^CountBits - 1

\* += on the counter type: the sum wraps at the width of the type
add_u32(a, b) == (a + b) % 2^CountBits

----------------------------------------------------------------------------
(* ButtonController: constructors *)

create_initial ==
    [ state              |-> "Released",
      raw_state          |-> "Released",
      debounce_count     |-> 0,
      debounce_threshold |-> DEBOUNCE_COUNT,
      debounce_delay_ms  |-> DEBOUNCE_DELAY_MS,
      press_count        |-> 0,
      led_state          |-> "Off" ]

default == create_initial

new == default

\* mutant: the requested threshold is ignored in favour of the default
with_debounce_default_threshold(debounce_delay_ms, debounce_threshold) ==
    [ state              |-> "Released",
      raw_state          |-> "Released",
      debounce_count     |-> 0,
      debounce_threshold |-> DEBOUNCE_COUNT,
      debounce_delay_ms  |-> clamp_debounce_delay(debounce_delay_ms),
      press_count        |-> 0,
      led_state          |-> "Off" ]

with_debounce(debounce_delay_ms, debounce_threshold) ==
    [ state              |-> "Released",
      raw_state          |-> "Released",
      debounce_count     |-> 0,
      debounce_threshold |-> debounce_threshold,
      debounce_delay_ms  |-> clamp_debounce_delay(debounce_delay_ms),
      press_count        |-> 0,
      led_state          |-> "Off" ]

----------------------------------------------------------------------------
(* ButtonController: update and its helpers.  A &mut self method that      *)
(* returns a value is an operator from self to [self, ret].                *)

\* mutant: the press is reported but not counted
handle_press_event_no_count(self) ==
    [ self |-> [self EXCEPT !.led_state = "On"],
      ret  |-> "Pressed" ]

handle_press_event(self) ==
    [ self |-> [self EXCEPT !.press_count = @ + 1, !.led_state = "On"],
      ret  |-> "Pressed" ]

\* mutant: a release takes the press back off the counter
handle_release_event_uncounts(self) ==
    [ self |-> [self EXCEPT !.press_count = @ - 1, !.led_state = "Off"],
      ret  |-> "Released" ]

\* mutant: the release is reported as a press
handle_release_event_reports_press(self) ==
    [ self |-> [self EXCEPT !.led_state = "Off"],
      ret  |-> "Pressed" ]

handle_release_event(self) ==
    [ self |-> [self EXCEPT !.led_state = "Off"],
      ret  |-> "Released" ]

handle_transition_event(self, old_state, new_state) ==
    IF old_state = "Released" /\ new_state = "Pressed" THEN handle_press_event(self)
    ELSE IF old_state = "Pressed" /\ new_state = "Released" THEN handle_release_event(self)
    ELSE [self |-> self, ret |-> "None"]

\* mutant: the new debounced state is never stored
apply_state_transition_no_store(self) ==
    handle_transition_event(self, self.state, self.raw_state)

apply_state_transition(self) ==
    LET old_state == self.state
        s1 == [self EXCEPT !.state = self.raw_state]
    IN  handle_transition_event(s1, old_state, s1.state)

\* mutant: the threshold is compared with > instead of >=
check_state_transition_strict(self) ==
    IF self.debounce_count > self.debounce_threshold /\ self.state # self.raw_state
    THEN apply_state_transition(self)
    ELSE [self |-> self, ret |-> "None"]

\* mutant: the threshold is not consulted at all
check_state_transition_no_threshold(self) ==
    IF self.state # self.raw_state
    THEN apply_state_transition(self)
    ELSE [self |-> self, ret |-> "None"]

\* mutant: the count is compared with the delay instead of the threshold
check_state_transition_by_delay(self) ==
    IF self.debounce_count >= self.debounce_delay_ms /\ self.state # self.raw_state
    THEN apply_state_transition(self)
    ELSE [self |-> self, ret |-> "None"]

\* mutant: the change is committed one sample early
check_state_transition_early(self) ==
    IF self.debounce_count + 1 >= self.debounce_threshold
         /\ self.state # self.raw_state
    THEN apply_state_transition(self)
    ELSE [self |-> self, ret |-> "None"]

\* mutant: the change is committed only when the count equals the threshold
check_state_transition_equal(self) ==
    IF self.debounce_count = self.debounce_threshold /\ self.state # self.raw_state
    THEN apply_state_transition(self)
    ELSE [self |-> self, ret |-> "None"]

check_state_transition(self) ==
    IF self.debounce_count >= self.debounce_threshold /\ self.state # self.raw_state
    THEN apply_state_transition(self)
    ELSE [self |-> self, ret |-> "None"]

\* mutant: a change of level keeps the count of the previous run
update_debounce_counter_keep_count(self, new_raw_state) ==
    IF new_raw_state = self.raw_state
    THEN IF self.debounce_count < self.debounce_threshold
         THEN [self EXCEPT !.debounce_count = @ + 1]
         ELSE self
    ELSE [self EXCEPT !.raw_state = new_raw_state]

\* mutant: the sample that changes the level already counts as one
update_debounce_counter_count_first(self, new_raw_state) ==
    IF new_raw_state = self.raw_state
    THEN IF self.debounce_count < self.debounce_threshold
         THEN [self EXCEPT !.debounce_count = @ + 1]
         ELSE self
    ELSE [self EXCEPT !.raw_state = new_raw_state, !.debounce_count = 1]

\* mutant: the count is incremented without the saturation test
update_debounce_counter_unbounded(self, new_raw_state) ==
    IF new_raw_state = self.raw_state
    THEN [self EXCEPT !.debounce_count = @ + 1]
    ELSE [self EXCEPT !.raw_state = new_raw_state, !.debounce_count = 0]

\* mutant: an identical sample at saturation restarts the count
update_debounce_counter_restarts(self, new_raw_state) ==
    IF new_raw_state = self.raw_state
    THEN IF self.debounce_count < self.debounce_threshold
         THEN [self EXCEPT !.debounce_count = @ + 1]
         ELSE [self EXCEPT !.debounce_count = 0]
    ELSE [self EXCEPT !.raw_state = new_raw_state, !.debounce_count = 0]

\* mutant: the counter is incremented, at its width, without the saturation test
update_debounce_counter_unguarded(self, new_raw_state) ==
    IF new_raw_state = self.raw_state
    THEN [self EXCEPT !.debounce_count = add_u32(@, 1)]
    ELSE [self EXCEPT !.raw_state = new_raw_state, !.debounce_count = 0]

\* mutant: the count stops one short of the threshold
update_debounce_counter_stops_short(self, new_raw_state) ==
    IF new_raw_state = self.raw_state
    THEN IF self.debounce_count + 1 < self.debounce_threshold
         THEN [self EXCEPT !.debounce_count = @ + 1]
         ELSE self
    ELSE [self EXCEPT !.raw_state = new_raw_state, !.debounce_count = 0]

update_debounce_counter(self, new_raw_state) ==
    IF new_raw_state = self.raw_state
    THEN IF self.debounce_count < self.debounce_threshold
         THEN [self EXCEPT !.debounce_count = add_u32(@, 1)]
         ELSE self
    ELSE [self EXCEPT !.raw_state = new_raw_state, !.debounce_count = 0]

update(self, gpio_level) ==
    LET new_raw_state == gpio_to_button_state(gpio_level)
    IN  check_state_transition(update_debounce_counter(self, new_raw_state))

----------------------------------------------------------------------------
(* ButtonController: configuration and reset *)

\* mutant: the delay is stored as requested
set_debounce_delay_unclamped(self, delay_ms) ==
    [self EXCEPT !.debounce_delay_ms = delay_ms]

\* mutant: a new delay restarts the run
set_debounce_delay_restarts(self, delay_ms) ==
    [self EXCEPT !.debounce_delay_ms = clamp_debounce_delay(delay_ms),
                 !.debounce_count = 0]

set_debounce_delay(self, delay_ms) ==
    [self EXCEPT !.debounce_delay_ms = clamp_debounce_delay(delay_ms)]

\* mutant: a threshold of 0 is coerced to 1
set_debounce_threshold_min_one(self, threshold) ==
    [self EXCEPT !.debounce_threshold = IF threshold < 1 THEN 1 ELSE threshold]

\* mutant: a new threshold restarts the run
set_debounce_threshold_restarts(self, threshold) ==
    [self EXCEPT !.debounce_threshold = threshold, !.debounce_count = 0]

set_debounce_threshold(self, threshold) ==
    [self EXCEPT !.debounce_threshold = threshold]

\* mutant: the LED is left as it was
reset_keeps_led(self) ==
    [self EXCEPT !.state = "Released",
                 !.raw_state = "Released",
                 !.debounce_count = 0,
                 !.press_count = 0]

\* mutant: the debounce counter is left as it was
reset_keeps_count(self) ==
    [self EXCEPT !.state = "Released",
                 !.raw_state = "Released",
                 !.press_count = 0,
                 !.led_state = "Off"]

\* mutant: reset also puts the threshold back to its default
reset_restores_threshold(self) ==
    [self EXCEPT !.state = "Released",
                 !.raw_state = "Released",
                 !.debounce_count = 0,
                 !.debounce_threshold = DEBOUNCE_COUNT,
                 !.press_count = 0,
                 !.led_state = "Off"]

reset(self) ==
    [self EXCEPT !.state = "Released",
                 !.raw_state = "Released",
                 !.debounce_count = 0,
                 !.press_count = 0,
                 !.led_state = "Off"]

----------------------------------------------------------------------------
(* LedController of led.rs *)

led_new ==
    [ state |-> "Off", delay_ms |-> BLINK_DELAY_MS ]

led_default == led_new

\* mutant: toggle only ever switches the LED on
toggle_only_on(self) ==
    [ self |-> [self EXCEPT !.state = "On"], ret |-> "On" ]

toggle(self) ==
    LET s1 == [self EXCEPT !.state = IF self.state = "On" THEN "Off" ELSE "On"]
    IN  [ self |-> s1, ret |-> s1.state ]

led_delay_ms(self) == self.delay_ms

----------------------------------------------------------------------------
(* What a caller can observe of a controller through its getters, apart    *)
(* from the configuration (debounce_threshold, debounce_delay_ms).         *)

Observe(self) ==
    [ state          |-> self.state,
      raw_state      |-> self.raw_state,
      debounce_count |-> self.debounce_count,
      press_count    |-> self.press_count,
      led_state      |-> self.led_state ]

Entry(gpio_level, r) ==
    [ gpio_level |-> gpio_level, ret |-> r.ret, after |-> Observe(r.self) ]

----------------------------------------------------------------------------
(* Operations as actions *)

\* the second controller: whether one is being compared, its fields, and
\* what its last update returned
Twin(live, c, ret) == [live |-> live, ctrl |-> c, ret |-> ret]

NoTwin == Twin(FALSE, create_initial, "NoCall")

\* update called on the second controller with the same sample
TwinUpdate(gpio_level) ==
    LET r == update(twin.ctrl, gpio_level)
    IN  twin' = Twin(twin.live, r.self, r.ret)

\* set_debounce_threshold called on the second controller
TwinSetDebounceThreshold(threshold) ==
    twin' = Twin(twin.live, set_debounce_threshold(twin.ctrl, threshold), "NoCall")

Constructed(c, name, a) ==
    /\ twin = NoTwin
    /\ ctrl = c
    /\ op = name
    /\ args = a
    /\ event = "NoCall"
    /\ hist0 = Observe(c)
    /\ hist = <<>>
    /\ led = led_new
    /\ led_ret = "NoCall"
    /\ led_log = <<>>
    /\ pc = "main"
    /\ pins = [button |-> TRUE, led |-> FALSE]
    /\ iter = <<>>

InitNew == Constructed(new, "new", [none |-> TRUE])

InitWithDebounce(delays) ==
    \E d \in delays, n \in Thresholds :
        Constructed(with_debounce(d, n), "with_debounce",
                    [debounce_delay_ms |-> d, debounce_threshold |-> n])

Update(gpio_level) ==
    LET r == update(ctrl, gpio_level)
    IN  /\ ctrl' = r.self
        /\ op' = "update"
        /\ args' = [gpio_level |-> gpio_level]
        /\ event' = r.ret
        /\ hist' = Append(hist, Entry(gpio_level, r))
        /\ UNCHANGED hist0
        /\ UNCHANGED led_vars
        /\ UNCHANGED pins

Reset ==
    /\ ctrl' = reset(ctrl)
    /\ op' = "reset"
    /\ args' = [before |-> Observe(ctrl)]
    /\ event' = "NoCall"
    /\ hist0' = Observe(ctrl')
    /\ hist' = <<>>
    /\ UNCHANGED led_vars
    /\ UNCHANGED loop_vars

SetDebounceDelay(delay_ms) ==
    /\ ctrl' = set_debounce_delay(ctrl, delay_ms)
    /\ op' = "set_debounce_delay"
    /\ args' = [delay_ms |-> delay_ms]
    /\ event' = "NoCall"
    /\ UNCHANGED <<hist0, hist>>
    /\ UNCHANGED led_vars
    /\ UNCHANGED loop_vars

SetDebounceThreshold(threshold) ==
    /\ ctrl' = set_debounce_threshold(ctrl, threshold)
    /\ op' = "set_debounce_threshold"
    /\ args' = [threshold |-> threshold]
    /\ event' = "NoCall"
    /\ UNCHANGED <<hist0, hist>>
    /\ UNCHANGED led_vars
    /\ UNCHANGED loop_vars

Toggle ==
    LET r == toggle(led)
    IN  /\ led' = r.self
        /\ led_ret' = r.ret
        /\ led_log' = Append(led_log, [ret |-> r.ret, after |-> r.self])
        /\ UNCHANGED button_vars
        /\ UNCHANGED loop_vars

----------------------------------------------------------------------------
(* The polling loop of button.rs as main runs it: one task, one controller, *)
(* the button pin driven from outside.  iter lists the accesses of the      *)
(* current iteration, each with the value it read, passed or wrote.         *)

Access(name, val) == [op |-> name, val |-> val]

\* mutant: the LED pin is driven with the inverted level
update_led_inverted(self) ==
    IF led_state_to_level(self.led_state) THEN FALSE ELSE TRUE

\* the level update_led drives the LED pin to: set_high is TRUE, set_low FALSE
update_led(self) ==
    IF led_state_to_level(self.led_state) THEN TRUE ELSE FALSE

\* main enters run_button_loop with the controller, button and LED it built
EnterLoop ==
    /\ pc = "main"
    /\ pc' = "process_button_state"
    /\ UNCHANGED <<button_vars, led_vars, pins, iter>>
    /\ UNCHANGED twin

\* process_button_state evaluates button.is_high(), the argument of update
ReadButton ==
    /\ pc = "process_button_state"
    /\ Len(hist) < MaxLoopIterations
    /\ pc' = "update"
    /\ iter' = <<Access("is_high", pins.button)>>
    /\ UNCHANGED <<button_vars, led_vars, pins>>
    /\ UNCHANGED twin

\* process_button_state calls controller.update with the level it read
LoopUpdate ==
    /\ pc = "update"
    /\ Update(iter[1].val)
    /\ pc' = "update_led"
    /\ iter' = Append(iter, Access("update", iter[1].val))
    /\ UNCHANGED twin

\* update_led drives the LED pin from controller.led_state()
UpdateLed ==
    /\ pc = "update_led"
    /\ pins' = [pins EXCEPT !.led = update_led(ctrl)]
    /\ pc' = "after_millis"
    /\ iter' = Append(iter, Access("set_level", pins'.led))
    /\ UNCHANGED <<button_vars, led_vars>>
    /\ UNCHANGED twin

\* the task suspends on Timer::after_millis(controller.debounce_delay_ms())
Suspend ==
    /\ pc = "after_millis"
    /\ pc' = "suspended"
    /\ iter' = Append(iter, Access("after_millis", ctrl.debounce_delay_ms))
    /\ UNCHANGED <<button_vars, led_vars, pins>>
    /\ UNCHANGED twin

\* the timer expires and the loop starts its next iteration
Wake ==
    /\ pc = "suspended"
    /\ pc' = "process_button_state"
    /\ UNCHANGED <<button_vars, led_vars, pins, iter>>
    /\ UNCHANGED twin

\* the button is pressed or released: the input pin changes level at any time
ButtonChanges ==
    /\ pins' = [pins EXCEPT !.button = ~@]
    /\ UNCHANGED <<button_vars, led_vars, pc, iter>>
    /\ UNCHANGED twin

----------------------------------------------------------------------------
(* Spec: every public operation of the controller, in any order *)

Init == InitNew \/ InitWithDebounce(DelayInputs)

DoUpdate ==
    \E gpio_level \in BOOLEAN :
        /\ Len(hist) < MaxCalls
        /\ Update(gpio_level)
        /\ UNCHANGED <<pc, iter, twin>>

DoReset == Reset /\ UNCHANGED twin

DoSetDebounceDelay ==
    \E d \in DelayInputs : SetDebounceDelay(d) /\ UNCHANGED twin

DoSetDebounceThreshold ==
    \E n \in Thresholds : SetDebounceThreshold(n) /\ UNCHANGED twin

Next == DoUpdate \/ DoReset \/ DoSetDebounceDelay \/ DoSetDebounceThreshold

Spec == Init /\ [][Next]_vars

(* SpecFixed: a controller whose threshold is fixed at construction, fed a *)
(* sequence of samples                                                     *)

FeedSample ==
    \E gpio_level \in BOOLEAN :
        /\ Len(hist) < MaxSamples
        /\ Update(gpio_level)
        /\ UNCHANGED <<pc, iter, twin>>

NextFixed == FeedSample

SpecFixed == Init /\ [][NextFixed]_vars

(* SpecRuns: a controller whose threshold is fixed at construction, fed   *)
(* samples and reset now and then                                          *)

NextRuns == FeedSample \/ DoReset

SpecRuns == Init /\ [][NextRuns]_vars

(* SpecClamp: the delay argument swept over its range *)

InitClamp == InitWithDebounce(DelayArgs)

SweepDelay == \E d \in DelayArgs : SetDebounceDelay(d) /\ UNCHANGED twin

NextClamp == SweepDelay

SpecClamp == InitClamp /\ [][NextClamp]_vars

(* SpecLed: a LedController toggled again and again *)

InitLed == InitNew

DoToggle == Len(led_log) < MaxToggles /\ Toggle /\ UNCHANGED twin

NextLed == DoToggle

SpecLed == InitLed /\ [][NextLed]_vars

(* SpecWidth: the threshold swept over the whole range of the counter type *)

InitWidth ==
    \E n \in 0 .. u32_MAX :
        Constructed(with_debounce(DEBOUNCE_DELAY_MS, n), "with_debounce",
                    [debounce_delay_ms |-> DEBOUNCE_DELAY_MS,
                     debounce_threshold |-> n])

FeedWidth ==
    \E gpio_level \in BOOLEAN :
        /\ Len(hist) < MaxWidthSamples
        /\ Update(gpio_level)
        /\ UNCHANGED <<pc, iter, twin>>

NextWidth == FeedWidth

SpecWidth == InitWidth /\ [][NextWidth]_vars

(* SpecLoop: main running run_button_loop on a new controller *)

InitLoop == InitNew

NextLoop ==
    \/ EnterLoop
    \/ ReadButton
    \/ LoopUpdate
    \/ UpdateLed
    \/ Suspend
    \/ Wake
    \/ ButtonChanges

SpecLoop == InitLoop /\ [][NextLoop]_vars

(* SpecTwin: two controllers built with different delays and put through  *)
(* the same updates and threshold changes                                  *)

InitTwin ==
    \E d1 \in DelayInputs, d2 \in DelayInputs, n \in Thresholds :
        /\ ctrl = with_debounce(d1, n)
        /\ twin = Twin(TRUE, with_debounce(d2, n), "NoCall")
        /\ op = "with_debounce"
        /\ args = [debounce_delay_ms |-> d1, debounce_threshold |-> n]
        /\ event = "NoCall"
        /\ hist0 = Observe(ctrl)
        /\ hist = <<>>
        /\ led = led_new
        /\ led_ret = "NoCall"
        /\ led_log = <<>>
        /\ pc = "main"
        /\ pins = [button |-> TRUE, led |-> FALSE]
        /\ iter = <<>>

UpdateBoth ==
    \E gpio_level \in BOOLEAN :
        /\ Len(hist) < MaxTwinCalls
        /\ Update(gpio_level)
        /\ TwinUpdate(gpio_level)
        /\ UNCHANGED <<pc, iter>>

SetDebounceThresholdBoth ==
    \E n \in Thresholds :
        /\ SetDebounceThreshold(n)
        /\ TwinSetDebounceThreshold(n)

NextTwin == UpdateBoth \/ SetDebounceThresholdBoth

SpecTwin == InitTwin /\ [][NextTwin]_vars

(* SpecReset: a controller used in any way and then reset, next to a       *)
(* controller built by with_debounce from its configuration at that moment, *)
(* both fed the same samples from then on                                   *)

ResetAndBuild ==
    /\ ~twin.live
    /\ Reset
    /\ twin' = Twin(TRUE,
                    with_debounce(ctrl.debounce_delay_ms, ctrl.debounce_threshold),
                    "NoCall")

NextReset ==
    \/ (~twin.live /\ Len(hist) < MaxTwinCalls /\ DoUpdate)
    \/ (~twin.live /\ DoSetDebounceDelay)
    \/ (~twin.live /\ DoSetDebounceThreshold)
    \/ ResetAndBuild
    \/ (twin.live /\ UpdateBoth)

SpecReset == Init /\ [][NextReset]_vars

----------------------------------------------------------------------------
(* Reading the history of update calls *)

\* the sample of the i-th update, what it returned, and the controller after it
Sample(i) == hist[i].gpio_level
Ret(i) == hist[i].ret
Snap(i) == IF i = 0 THEN hist0 ELSE hist[i].after

\* the samples of updates i..j all have the level lvl
AllSame(i, j, lvl) == \A k \in i .. j : Sample(k) = lvl

\* length of the run of identical consecutive samples that ends with update j
RunLen(j) ==
    LET same == {k \in 1 .. j : AllSame(j - k + 1, j, Sample(j))}
    IN  CHOOSE k \in same : \A m \in same : m <= k

\* the edge event of a commit to the level of a sample
EdgeOf(gpio_level) == IF gpio_level THEN "Released" ELSE "Pressed"

\* the fixed threshold of SpecFixed
N == ctrl.debounce_threshold

----------------------------------------------------------------------------
(* C1..C4: the debounce filter with a fixed threshold (SpecFixed) *)

\* C1: with a fixed threshold N, as long as no run of consecutive identical
\* samples is as long as N, every update has returned ButtonEvent::None and the
\* debounced state has stayed Released after every call.
C1_DebounceRejection ==
    (\A j \in 1 .. Len(hist) : RunLen(j) < N)
        => /\ ctrl.state = "Released"
           /\ \A j \in 1 .. Len(hist) :
                  Ret(j) = "None" /\ Snap(j).state = "Released"

\* C1 witness: threshold 3, six or more samples in runs of at most two, three
\* or more of them pressed.
C1_Witness ==
    /\ op = "update"
    /\ N = 3
    /\ Len(hist) >= 6
    /\ \A j \in 1 .. Len(hist) : RunLen(j) < N
    /\ Cardinality({j \in 1 .. Len(hist) : ~Sample(j)}) >= 3

\* C2 as stated: from a fresh controller with threshold N >= 1, N pressed
\* samples in a row return None for the first N-1 calls and Pressed on the N-th,
\* leaving the state Pressed; the (N+1)-th returns None.
C2_Original ==
    N >= 1 =>
        \A k \in 1 .. Len(hist) :
            AllSame(1, k, FALSE) =>
                /\ k < N => Ret(k) = "None"
                /\ k = N => Ret(k) = "Pressed" /\ Snap(k).state = "Pressed"
                /\ k = N + 1 => Ret(k) = "None"

\* C2 amended: from a fresh controller with threshold N, pressed samples in a
\* row return None and leave the state Released for the first N calls, return
\* Pressed on call N+1, leaving the state Pressed, and return None from call
\* N+2 on.
C2_ThresholdCommit ==
    \A k \in 1 .. Len(hist) :
        AllSame(1, k, FALSE) =>
            /\ k <= N => Ret(k) = "None" /\ Snap(k).state = "Released"
            /\ k = N + 1 => Ret(k) = "Pressed" /\ Snap(k).state = "Pressed"
            /\ k > N + 1 => Ret(k) = "None" /\ Snap(k).state = "Pressed"

\* C2 witness: threshold 3 and five pressed samples fed to a fresh controller.
C2_Witness ==
    /\ N = 3
    /\ Len(hist) = 5
    /\ AllSame(1, 5, FALSE)
    /\ ctrl.state = "Pressed"

\* C3: with a fixed threshold N >= 1, from any point where the raw state equals
\* the debounced state, k samples of the opposite level in a row return None
\* and leave the state unchanged while k <= N, and for k = N+1 return the edge
\* event of that level (Pressed for false, Released for true) and change the
\* state.
C3_CommitLatency ==
    N >= 1 =>
        \A i \in 0 .. Len(hist) : \A j \in i + 1 .. Len(hist) :
            ( /\ Snap(i).state = Snap(i).raw_state
              /\ gpio_to_button_state(Sample(j)) # Snap(i).state
              /\ AllSame(i + 1, j, Sample(j)) )
            => /\ j - i <= N =>
                    Ret(j) = "None" /\ Snap(j).state = Snap(i).state
               /\ j - i = N + 1 =>
                    /\ Ret(j) = EdgeOf(Sample(j))
                    /\ Snap(j).state # Snap(i).state
                    /\ Snap(j).state = gpio_to_button_state(Sample(j))

\* C3 witness: threshold 2; three pressed samples commit the press and three
\* released samples after them commit the release on the third.
C3_Witness ==
    /\ N = 2
    /\ Len(hist) = 6
    /\ Ret(3) = "Pressed"
    /\ Snap(3).state = Snap(3).raw_state
    /\ AllSame(4, 6, TRUE)
    /\ Ret(6) = "Released"

\* C4: a sample whose level differs from raw_state makes raw_state that level
\* with debounce_count 0, whatever partial run preceded it; an edge event is
\* returned only by an update that ends a run of more than N identical samples
\* (so the run reached the full threshold on its own); and with threshold 5 the
\* samples 4 pressed, 1 released, 4 pressed leave the state Released with no
\* event returned.
C4_BounceReset ==
    /\ \A j \in 1 .. Len(hist) :
           gpio_to_button_state(Sample(j)) # Snap(j - 1).raw_state =>
               /\ Snap(j).raw_state = gpio_to_button_state(Sample(j))
               /\ Snap(j).debounce_count = 0
    /\ \A j \in 1 .. Len(hist) :
           Ret(j) # "None" => RunLen(j) >= N + 1
    /\ ( /\ N = 5
         /\ Len(hist) = 9
         /\ AllSame(1, 4, FALSE) /\ Sample(5) /\ AllSame(6, 9, FALSE) )
       => /\ ctrl.state = "Released"
          /\ \A j \in 1 .. 9 : Ret(j) = "None"

\* C4 witness: threshold 5 and the samples 4 pressed, 1 released, 4 pressed,
\* with the partial run of four discarded by the released sample.
C4_Witness ==
    /\ N = 5
    /\ Len(hist) = 9
    /\ AllSame(1, 4, FALSE) /\ Sample(5) /\ AllSame(6, 9, FALSE)
    /\ Snap(4).debounce_count = 3
    /\ Snap(5).debounce_count = 0
    /\ Snap(5).raw_state = "Released"

----------------------------------------------------------------------------
(* C5..C9: every public operation, in any order (Spec) *)

\* C5: once an update has returned Pressed or Released, every later update
\* returns None and leaves the debounced state as that update left it, for as
\* long as every sample since has had the same level (no reset in between;
\* set_debounce_delay and set_debounce_threshold calls may be).
C5_FiresOnce ==
    \A i \in 1 .. Len(hist) : \A j \in i + 1 .. Len(hist) :
        (Ret(i) # "None" /\ AllSame(i + 1, j, Sample(i)))
            => Ret(j) = "None" /\ Snap(j).state = Snap(i).state

\* C5 witness: an update returned an edge event and three more samples of the
\* same level followed it.
C5_Witness ==
    \E i \in 1 .. Len(hist) :
        /\ Ret(i) # "None"
        /\ i + 3 <= Len(hist)
        /\ AllSame(i + 1, i + 3, Sample(i))

\* the number of updates that returned Pressed since construction or the
\* last reset
PressedEvents == Cardinality({i \in 1 .. Len(hist) : Ret(i) = "Pressed"})

\* C6: an update that returns Pressed increases press_count by exactly 1, an
\* update that returns Released or None leaves it unchanged, and press_count
\* always equals the number of Pressed events returned since construction or
\* the last reset.
C6_PressCounting ==
    /\ [](ctrl.press_count = PressedEvents)
    /\ [][ op' = "update" =>
             /\ event' = "Pressed" => ctrl'.press_count = ctrl.press_count + 1
             /\ event' \in {"Released", "None"} =>
                    ctrl'.press_count = ctrl.press_count ]_vars

\* C6 witness: two presses and a release have been counted.
C6_Witness ==
    /\ op = "update"
    /\ event = "Pressed"
    /\ ctrl.press_count = 2
    /\ \E i \in 1 .. Len(hist) : Ret(i) = "Released"

\* C7: in every reachable state led_state is On exactly when state is Pressed;
\* an update that returns Pressed leaves the LED On, one that returns Released
\* leaves it Off, and one that returns None leaves led_state unchanged.
C7_LedMirrors ==
    /\ []( /\ ctrl.led_state = "On" <=> ctrl.state = "Pressed"
           /\ (op = "update" /\ event = "Pressed") => ctrl.led_state = "On"
           /\ (op = "update" /\ event = "Released") => ctrl.led_state = "Off" )
    /\ [][ (op' = "update" /\ event' = "None") =>
               ctrl'.led_state = ctrl.led_state ]_vars

\* C7 witness: after an update returned Pressed a later update has returned
\* Released, and the LED, On in between, is Off with the state Released.
C7_Witness ==
    /\ op = "update"
    /\ event = "Released"
    /\ ctrl.led_state = "Off"
    /\ ctrl.state = "Released"
    /\ \E i \in 1 .. Len(hist) :
           Ret(i) = "Pressed" /\ Snap(i).led_state = "On"

\* C8 as stated: debounce_count <= debounce_threshold in every reachable state.
C8_Original == ctrl.debounce_count <= ctrl.debounce_threshold

\* the larger of two numbers
Max(a, b) == IF a >= b THEN a ELSE b

\* C8 amended: debounce_count <= debounce_threshold holds after construction
\* and after reset and is preserved by every operation except a
\* set_debounce_threshold(t) with t below the current debounce_count, which
\* leaves the count as it is; update never raises debounce_count above the
\* larger of its previous value and debounce_threshold.
C8_RunLengthBound ==
    /\ [](op \in {"new", "with_debounce", "reset"} =>
              ctrl.debounce_count <= ctrl.debounce_threshold)
    /\ [][ ( /\ ctrl.debounce_count <= ctrl.debounce_threshold
             /\ ~(op' = "set_debounce_threshold"
                    /\ args'.threshold < ctrl.debounce_count) )
           => ctrl'.debounce_count <= ctrl'.debounce_threshold ]_vars
    /\ [][ op' = "update" =>
             ctrl'.debounce_count
                <= Max(ctrl.debounce_count, ctrl.debounce_threshold) ]_vars

\* C8 witness: an update with the count already saturated at a threshold of 2
\* or more, in a run that never had the threshold changed under it.
C8_Witness ==
    /\ op = "update"
    /\ ctrl.debounce_threshold >= 2
    /\ ctrl.debounce_count = ctrl.debounce_threshold
    /\ Len(hist) >= 2
    /\ Snap(Len(hist) - 1).debounce_count = ctrl.debounce_threshold

\* C9: in every reachable state debounce_delay_ms lies within
\* [MIN_DEBOUNCE_DELAY_MS, MAX_DEBOUNCE_DELAY_MS] = [1, 100].
C9_DelayInRange ==
    /\ MIN_DEBOUNCE_DELAY_MS = 1
    /\ MAX_DEBOUNCE_DELAY_MS = 100
    /\ MIN_DEBOUNCE_DELAY_MS <= ctrl.debounce_delay_ms
    /\ ctrl.debounce_delay_ms <= MAX_DEBOUNCE_DELAY_MS

\* C9 witness: set_debounce_delay(1000) has stored 100 on a controller that
\* has been updated before.
C9_Witness ==
    /\ op = "set_debounce_delay"
    /\ args.delay_ms = 1000
    /\ ctrl.debounce_delay_ms = 100
    /\ Len(hist) >= 1

----------------------------------------------------------------------------
(* C10: the delay argument swept over its range (SpecClamp) *)

\* the value the claim gives for a requested delay d
ClaimedClamp(d) == IF d < 1 THEN 1 ELSE IF d > 100 THEN 100 ELSE d

\* C10: clamp_debounce_delay(d) never panics and is 1 for d < 1, 100 for
\* d > 100 and d for d in [1, 100]; with_debounce and set_debounce_delay store
\* exactly that value for the delay they are given.
C10_ClampValues ==
    /\ \A d \in DelayArgs :
           /\ clamp_debounce_delay(d) # PANIC
           /\ clamp_debounce_delay(d) = ClaimedClamp(d)
    /\ op = "with_debounce" =>
           ctrl.debounce_delay_ms = ClaimedClamp(args.debounce_delay_ms)
    /\ op = "set_debounce_delay" =>
           ctrl.debounce_delay_ms = ClaimedClamp(args.delay_ms)

\* C10 witness: set_debounce_delay(101), just above the range, has stored 100.
C10_Witness ==
    /\ op = "set_debounce_delay"
    /\ args.delay_ms = 101
    /\ ctrl.debounce_delay_ms = 100

----------------------------------------------------------------------------
(* C11: the clamp applied twice (SpecClamp) *)

\* C11: clamp_debounce_delay(clamp_debounce_delay(d)) = clamp_debounce_delay(d)
\* for every requested delay d, the stored delay is a value the clamp leaves
\* alone, and set_debounce_delay called with the value debounce_delay_ms()
\* returns leaves the controller as it was.
C11_ClampIdempotent ==
    /\ [](\A d \in DelayArgs :
              clamp_debounce_delay(clamp_debounce_delay(d))
                  = clamp_debounce_delay(d))
    /\ [](set_debounce_delay(ctrl, ctrl.debounce_delay_ms) = ctrl)
    /\ [][ (op' = "set_debounce_delay"
              /\ args'.delay_ms = ctrl.debounce_delay_ms) => ctrl' = ctrl ]_vars

\* C11 witness: a delay of 1000 was requested and clamped to 100, a value the
\* clamp maps to itself.
C11_Witness ==
    /\ op = "set_debounce_delay"
    /\ args.delay_ms = 1000
    /\ ctrl.debounce_delay_ms = 100
    /\ clamp_debounce_delay(ctrl.debounce_delay_ms) = 100

----------------------------------------------------------------------------
(* C12..C13: the update call that commits (Spec) *)

\* the update call of this step receives a sample whose level differs from
\* the debounced state
DifferingSample ==
    /\ op' = "update"
    /\ gpio_to_button_state(args'.gpio_level) # ctrl.state

\* the update call of this step commits: it changes the debounced state to
\* the level of its sample and returns the edge event of that level
Commits ==
    /\ ctrl'.state = gpio_to_button_state(args'.gpio_level)
    /\ ctrl'.state # ctrl.state
    /\ event' = EdgeOf(args'.gpio_level)

\* C12 as stated: with a threshold of 0 or 1 the update call that receives a
\* sample differing from the debounced state changes the state and returns the
\* edge event.
C12_Original ==
    [][ (DifferingSample /\ ctrl.debounce_threshold \in {0, 1}) => Commits ]_vars

\* C12 amended: with a threshold of 0 the update call that receives a sample
\* differing from the debounced state commits; with a threshold of 1 it
\* commits only if raw_state already had the sample's level before the call,
\* and otherwise (raw_state equal to the debounced state) returns None and
\* leaves the debounced state unchanged.
C12_ImmediateCommit ==
    [][ DifferingSample =>
          /\ ctrl.debounce_threshold = 0 => Commits
          /\ (ctrl.debounce_threshold = 1 /\ ctrl.raw_state # ctrl.state)
                => Commits
          /\ (ctrl.debounce_threshold = 1 /\ ctrl.raw_state = ctrl.state)
                => /\ event' = "None"
                   /\ ctrl'.state = ctrl.state
                   /\ ctrl'.raw_state # ctrl.state
                   /\ ctrl'.debounce_count = 0 ]_vars

\* C12 witness: with a threshold of 1 the first pressed sample returned None
\* and the second one Pressed.
C12_Witness ==
    /\ op = "update"
    /\ ctrl.debounce_threshold = 1
    /\ Len(hist) = 2
    /\ AllSame(1, 2, FALSE)
    /\ Ret(1) = "None" /\ Snap(1).state = "Released"
    /\ Ret(2) = "Pressed" /\ Snap(2).state = "Pressed"

\* the update call of this step changes the debounced state
StateChanges == op' = "update" /\ ctrl'.state # ctrl.state

\* C13 as stated: every update call that changes the debounced state found
\* debounce_count below debounce_threshold, leaves it equal to
\* debounce_threshold, and leaves a raw_state that differs from the debounced
\* state before the call.
C13_Original ==
    [][ StateChanges =>
          /\ ctrl.debounce_count < ctrl.debounce_threshold
          /\ ctrl'.debounce_count = ctrl'.debounce_threshold
          /\ ctrl'.raw_state # ctrl.state ]_vars

\* C13 amended: every update call that changes the debounced state leaves a
\* raw_state that differs from the debounced state before the call and equals
\* the one after it, and leaves debounce_count >= debounce_threshold; if
\* debounce_count was below debounce_threshold before the call it equals
\* debounce_threshold after it, and otherwise (a threshold of 0, or one that
\* set_debounce_threshold lowered to the count or below) it is unchanged, or
\* reset to 0 under a threshold of 0.
C13_CommitCondition ==
    [][ StateChanges =>
          /\ ctrl'.raw_state # ctrl.state
          /\ ctrl'.raw_state = ctrl'.state
          /\ ctrl'.debounce_count >= ctrl'.debounce_threshold
          /\ ctrl.debounce_count < ctrl.debounce_threshold =>
                 /\ ctrl'.debounce_count = ctrl.debounce_count + 1
                 /\ ctrl'.debounce_count = ctrl'.debounce_threshold
          /\ ctrl.debounce_count >= ctrl.debounce_threshold =>
                 \/ ctrl'.debounce_count = ctrl.debounce_count
                 \/ ctrl'.debounce_threshold = 0 /\ ctrl'.debounce_count = 0
        ]_vars

\* C13 witness: an update has committed a press by raising the count from 1 to
\* a threshold of 2.
C13_Witness ==
    /\ op = "update"
    /\ event = "Pressed"
    /\ ctrl.debounce_threshold = 2
    /\ ctrl.debounce_count = 2
    /\ Len(hist) >= 2
    /\ Snap(Len(hist) - 1).debounce_count = 1
    /\ Snap(Len(hist) - 1).state = "Released"

----------------------------------------------------------------------------
(* C14: LedController::toggle (SpecLed) *)

\* the LedController after k toggles
LedSnap(k) == IF k = 0 THEN led_new ELSE led_log[k].after

\* C14: toggle flips the level and returns the new level; from a new
\* controller the k-th toggle returns On for odd k and Off for even k; and an
\* even number of toggles from any point returns the whole controller, delay_ms
\* included, to what it was.
C14_ToggleFlips ==
    /\ \A k \in 1 .. Len(led_log) :
           /\ led_log[k].ret = led_log[k].after.state
           /\ led_log[k].after.state # LedSnap(k - 1).state
           /\ led_log[k].ret = IF k % 2 = 1 THEN "On" ELSE "Off"
    /\ \A i \in 0 .. Len(led_log) : \A j \in i .. Len(led_log) :
           (j - i) % 2 = 0 => LedSnap(j) = LedSnap(i)
    /\ led = LedSnap(Len(led_log))
    /\ led_delay_ms(led) = BLINK_DELAY_MS

\* C14 witness: four toggles from new have returned On, Off, On, Off.
C14_Witness ==
    /\ Len(led_log) = 4
    /\ led_ret = "Off"
    /\ led.state = "Off"
    /\ led_log[3].ret = "On"

----------------------------------------------------------------------------
(* C15..C20: every public operation, in any order (Spec) *)

\* the five fields the claim names, as reset leaves them
Cleared(self) ==
    /\ self.state = "Released"
    /\ self.raw_state = "Released"
    /\ self.debounce_count = 0
    /\ self.press_count = 0
    /\ self.led_state = "Off"

\* C15: reset, called in any reachable state, leaves state Released, raw_state
\* Released, debounce_count 0, press_count 0 and led_state Off.
C15_ResetClears ==
    /\ [](op = "reset" => Cleared(ctrl))
    /\ [][op' = "reset" => Cleared(ctrl')]_vars

\* C15 witness: reset was called on a controller committed to Pressed with the
\* LED On, a press counted and a released run of one sample under way.
C15_Witness ==
    /\ op = "reset"
    /\ args.before.state = "Pressed"
    /\ args.before.led_state = "On"
    /\ args.before.raw_state = "Released"
    /\ args.before.debounce_count = 1
    /\ args.before.press_count = 1
    /\ Cleared(ctrl)

\* the controller the claim describes for a delay and a threshold
ClaimedInitial(d, n) ==
    [ state              |-> "Released",
      raw_state          |-> "Released",
      debounce_count     |-> 0,
      debounce_threshold |-> n,
      debounce_delay_ms  |-> d,
      press_count        |-> 0,
      led_state          |-> "Off" ]

\* C16: new() and default() yield Released, Released, count 0, presses 0, LED
\* Off, delay DEBOUNCE_DELAY_MS = 5 and threshold DEBOUNCE_COUNT = 5;
\* with_debounce(d, n) yields the same with threshold n and delay clamp(d);
\* the default delay lies strictly between the bounds 1 and 100 and the
\* default threshold is positive.
C16_InitialState ==
    /\ DEBOUNCE_DELAY_MS = 5 /\ DEBOUNCE_COUNT = 5
    /\ new = ClaimedInitial(5, 5)
    /\ default = ClaimedInitial(5, 5)
    /\ op = "new" => ctrl = ClaimedInitial(DEBOUNCE_DELAY_MS, DEBOUNCE_COUNT)
    /\ op = "with_debounce" =>
           ctrl = ClaimedInitial(ClaimedClamp(args.debounce_delay_ms),
                                 args.debounce_threshold)
    /\ MIN_DEBOUNCE_DELAY_MS = 1 /\ MAX_DEBOUNCE_DELAY_MS = 100
    /\ MIN_DEBOUNCE_DELAY_MS < DEBOUNCE_DELAY_MS
    /\ DEBOUNCE_DELAY_MS < MAX_DEBOUNCE_DELAY_MS
    /\ DEBOUNCE_COUNT > 0

\* C16 witness: with_debounce(1000, 2) has built a controller with delay 100
\* and threshold 2.
C16_Witness ==
    /\ op = "with_debounce"
    /\ args.debounce_delay_ms = 1000
    /\ args.debounce_threshold = 2
    /\ ctrl.debounce_delay_ms = 100
    /\ ctrl.debounce_threshold = 2

\* C17: gpio_to_button_state maps false to Pressed and true to Released and
\* update tracks exactly that level as raw_state, whatever the controller held;
\* led_state_to_level maps On to true and Off to false, so the level for the
\* LED pin is true exactly when led_state is On.
C17_Polarity ==
    /\ gpio_to_button_state(FALSE) = "Pressed"
    /\ gpio_to_button_state(TRUE) = "Released"
    /\ led_state_to_level("On") = TRUE
    /\ led_state_to_level("Off") = FALSE
    /\ op = "update" =>
           ctrl.raw_state = (IF args.gpio_level THEN "Released" ELSE "Pressed")
    /\ ctrl.led_state \in {"On", "Off"}
    /\ led_state_to_level(ctrl.led_state) <=> ctrl.led_state = "On"

\* C17 witness: an update with gpio_level false has committed a press; raw_state
\* is Pressed and the level for the LED pin is true.
C17_Witness ==
    /\ op = "update"
    /\ args.gpio_level = FALSE
    /\ ctrl.raw_state = "Pressed"
    /\ event = "Pressed"
    /\ led_state_to_level(ctrl.led_state)

\* C18 as stated: debounce_threshold > 0 in every reachable state.
C18_Original == ctrl.debounce_threshold > 0

\* C18 amended: the threshold is stored exactly as requested, 0 included:
\* with_debounce(_, n) and set_debounce_threshold(n) leave debounce_threshold
\* = n, new() leaves DEBOUNCE_COUNT = 5, and no other operation changes it.
C18_ThresholdAsGiven ==
    /\ []( /\ op = "new" => ctrl.debounce_threshold = DEBOUNCE_COUNT
           /\ op = "with_debounce" =>
                  ctrl.debounce_threshold = args.debounce_threshold
           /\ op = "set_debounce_threshold" =>
                  ctrl.debounce_threshold = args.threshold )
    /\ [][ op' # "set_debounce_threshold" =>
               ctrl'.debounce_threshold = ctrl.debounce_threshold ]_vars

\* C18 witness: set_debounce_threshold(0) on a controller that has been
\* updated has left the threshold at 0.
C18_Witness ==
    /\ op = "set_debounce_threshold"
    /\ args.threshold = 0
    /\ ctrl.debounce_threshold = 0
    /\ Len(hist) >= 1

\* C19 as stated: press_count never decreases from one state to the next,
\* whichever operation is called.
C19_Original ==
    [][ctrl'.press_count >= ctrl.press_count]_vars

\* C19 amended: press_count never decreases across update, set_debounce_delay
\* and set_debounce_threshold; reset sets it to 0.
C19_PressCountMonotonic ==
    /\ [][ op' # "reset" => ctrl'.press_count >= ctrl.press_count ]_vars
    /\ [][ op' = "reset" => ctrl'.press_count = 0 ]_vars

\* C19 witness: a second press has been counted after a release.
C19_Witness ==
    /\ op = "update"
    /\ event = "Pressed"
    /\ ctrl.press_count = 2
    /\ Len(hist) >= 3
    /\ \E i \in 1 .. Len(hist) : Ret(i) = "Released" /\ Snap(i).press_count = 1

\* the update call of this step receives a sample equal to raw_state while
\* debounce_count is at or above debounce_threshold
SaturatedSample ==
    /\ op' = "update"
    /\ gpio_to_button_state(args'.gpio_level) = ctrl.raw_state
    /\ ctrl.debounce_count >= ctrl.debounce_threshold

\* C20 as stated: such an update leaves debounce_count, state, press_count and
\* led_state exactly as they were.
C20_Original ==
    [][ SaturatedSample =>
          /\ ctrl'.debounce_count = ctrl.debounce_count
          /\ ctrl'.state = ctrl.state
          /\ ctrl'.press_count = ctrl.press_count
          /\ ctrl'.led_state = ctrl.led_state ]_vars

\* C20 amended: such an update leaves debounce_count and raw_state exactly as
\* they were; if the debounced state already equals raw_state it returns None
\* and leaves state, press_count and led_state unchanged, and if it does not
\* (the threshold was lowered to the count or below while a change was
\* pending) it commits the change and returns its edge event.
C20_SaturationKeepsCount ==
    [][ SaturatedSample =>
          /\ ctrl'.debounce_count = ctrl.debounce_count
          /\ ctrl'.raw_state = ctrl.raw_state
          /\ ctrl.state = ctrl.raw_state =>
                 /\ event' = "None"
                 /\ ctrl'.state = ctrl.state
                 /\ ctrl'.press_count = ctrl.press_count
                 /\ ctrl'.led_state = ctrl.led_state
          /\ ctrl.state # ctrl.raw_state =>
                 /\ event' = EdgeOf(args'.gpio_level)
                 /\ ctrl'.state = ctrl.raw_state ]_vars

\* C20 witness: after a press was committed at a threshold of 2, one more
\* pressed sample has left the count at 2 and returned None.
C20_Witness ==
    /\ op = "update"
    /\ event = "None"
    /\ ctrl.debounce_threshold = 2
    /\ ctrl.debounce_count = 2
    /\ ctrl.state = "Pressed"
    /\ ctrl.press_count = 1
    /\ Len(hist) >= 2
    /\ Ret(Len(hist) - 1) = "Pressed"
    /\ Snap(Len(hist) - 1).debounce_count = 2
    /\ Sample(Len(hist)) = FALSE

----------------------------------------------------------------------------
(* C21: the counter at the width of its type (SpecWidth) *)

\* C21: with debounce_count a CountBits-bit unsigned integer, for every
\* threshold up to and including u32_MAX and every sample sequence, the
\* counter stays within 0 .. u32_MAX, the increment in update is taken only
\* when debounce_count < debounce_threshold and adds exactly 1 without
\* overflowing, and an update whose sample equals raw_state never leaves a
\* smaller count.
C21_NoWrap ==
    /\ []( /\ ctrl.debounce_count \in 0 .. u32_MAX
           /\ ctrl.debounce_threshold \in 0 .. u32_MAX )
    /\ [][ (op' = "update"
              /\ gpio_to_button_state(args'.gpio_level) = ctrl.raw_state)
           => /\ ctrl'.debounce_count >= ctrl.debounce_count
              /\ ctrl'.debounce_count # ctrl.debounce_count =>
                     /\ ctrl.debounce_count < ctrl.debounce_threshold
                     /\ ctrl.debounce_count + 1 <= u32_MAX
                     /\ ctrl'.debounce_count = ctrl.debounce_count + 1 ]_vars

\* C21 witness: with the threshold at u32_MAX the count had reached u32_MAX
\* and one more identical sample has left it there.
C21_Witness ==
    /\ op = "update"
    /\ ctrl.debounce_threshold = u32_MAX
    /\ ctrl.debounce_count = u32_MAX
    /\ Len(hist) >= 2
    /\ Snap(Len(hist) - 1).debounce_count = u32_MAX
    /\ Sample(Len(hist)) = Sample(Len(hist) - 1)

----------------------------------------------------------------------------
(* C22: the polling loop (SpecLoop) *)

\* the accesses of one whole iteration, in order
IterationOrder == <<"is_high", "update", "set_level", "after_millis">>

\* C22: every iteration of run_button_loop performs, in this order, one read
\* of the button pin, one update with the level read, one write of the LED pin
\* with led_state_to_level(led_state) of the state that update left, and one
\* suspend of debounce_delay_ms; the controller changes only in that update
\* and the LED pin only in that write; and except between the update and the
\* write of one iteration the LED pin is high exactly when the debounced state
\* is Pressed.
C22_LoopOrder ==
    /\ []( /\ Len(iter) <= 4
           /\ \A k \in 1 .. Len(iter) : iter[k].op = IterationOrder[k]
           /\ Len(iter) >= 2 => iter[2].val = iter[1].val
           /\ Len(iter) >= 2 => Sample(Len(hist)) = iter[1].val
           /\ Len(iter) >= 3 =>
                  /\ iter[3].val = led_state_to_level(ctrl.led_state)
                  /\ pins.led = iter[3].val
           /\ Len(iter) >= 4 => iter[4].val = ctrl.debounce_delay_ms
           /\ pc = "suspended" => Len(iter) = 4
           /\ (pc = "process_button_state" /\ Len(hist) >= 1) => Len(iter) = 4
           /\ pc # "update_led" => (pins.led <=> ctrl.state = "Pressed") )
    /\ [][ ctrl' # ctrl => (pc = "update" /\ pc' = "update_led") ]_vars
    /\ [][ pins'.led # pins.led => (pc = "update_led" /\ pc' = "after_millis")
         ]_vars
    /\ [][ Len(hist') # Len(hist) =>
             (Len(hist') = Len(hist) + 1 /\ Len(iter') = 2) ]_vars

\* C22 witness: the sixth iteration has committed a press with the button read
\* low, driven the LED pin high and suspended for the delay of 5 ms.
C22_Witness ==
    /\ pc = "suspended"
    /\ Len(hist) = 6
    /\ Ret(6) = "Pressed"
    /\ iter = <<Access("is_high", FALSE), Access("update", FALSE),
                Access("set_level", TRUE), Access("after_millis", 5)>>
    /\ pins.led = TRUE
    /\ ctrl.state = "Pressed"

----------------------------------------------------------------------------
(* C23: two controllers that differ in the delay only (SpecTwin) *)

\* C23: two controllers that start equal except for debounce_delay_ms and
\* are put through the same samples (and the same threshold changes) return
\* the same event from every update and agree on state, raw_state,
\* debounce_count, press_count and led_state after every call.
C23_DelayNotInFilter ==
    /\ Observe(ctrl) = Observe(twin.ctrl)
    /\ ctrl.debounce_threshold = twin.ctrl.debounce_threshold
    /\ event = twin.ret

\* C23 witness: a controller with a delay of 1 ms and one with 100 ms have both
\* committed a press on the same update.
C23_Witness ==
    /\ twin.live
    /\ ctrl.debounce_delay_ms = 1
    /\ twin.ctrl.debounce_delay_ms = 100
    /\ op = "update"
    /\ event = "Pressed"
    /\ twin.ret = "Pressed"
    /\ Len(hist) >= 3

----------------------------------------------------------------------------
(* C24..C25: every public operation, in any order (Spec) *)

\* the updates since construction or the last reset that returned an event
EventCalls == {i \in 1 .. Len(hist) : Ret(i) # "None"}

\* C24: among the events other than None returned by update since
\* construction or the last reset, the first is Pressed and no two consecutive
\* ones are equal, whatever set_debounce_threshold and set_debounce_delay calls
\* were made in between.
C24_EventsAlternate ==
    \A i \in EventCalls :
        /\ (\A j \in EventCalls : j >= i) => Ret(i) = "Pressed"
        /\ \A j \in EventCalls :
               (j < i /\ \A k \in EventCalls : ~(j < k /\ k < i))
                   => Ret(j) # Ret(i)

\* C24 witness: updates have returned Pressed, Released and now Pressed again.
C24_Witness ==
    /\ op = "update"
    /\ event = "Pressed"
    /\ Cardinality(EventCalls) = 3
    /\ ctrl.press_count = 2

\* the controller after k more update calls that all receive gpio_level
RECURSIVE Held(_, _, _)
Held(self, gpio_level, k) ==
    IF k = 0 THEN self
    ELSE Held(update(self, gpio_level).self, gpio_level, k - 1)

\* a controller put back to what was observed of it after an earlier call
Restored(self, o) ==
    [self EXCEPT !.state = o.state,
                 !.raw_state = o.raw_state,
                 !.debounce_count = o.debounce_count,
                 !.press_count = o.press_count,
                 !.led_state = o.led_state]

\* C25: from every reachable state, with the threshold left at its value N,
\* N+1 consecutive update calls that all receive the level L leave the
\* debounced state at the logical state of L (Pressed for false, Released for
\* true), and the state then stays there for as long as L is held.
C25_HeldInputCommits ==
    \A gpio_level \in BOOLEAN :
        /\ Held(ctrl, gpio_level, N + 1).state
               = (IF gpio_level THEN "Released" ELSE "Pressed")
        /\ Held(ctrl, gpio_level, N + 2).state
               = (IF gpio_level THEN "Released" ELSE "Pressed")

\* C25 witness: with a threshold of 2 a pressed run of two was cut short by a
\* released sample, and three pressed samples held after it have committed the
\* press on the third.
C25_Witness ==
    /\ op = "update"
    /\ event = "Pressed"
    /\ N = 2
    /\ Len(hist) = 5
    /\ ~Sample(1) /\ Sample(2) /\ AllSame(3, 5, FALSE)
    /\ Snap(4).state = "Released"
    /\ ctrl.state = "Pressed"
    /\ Observe(ctrl) = Observe(Held(Restored(ctrl, Snap(2)), FALSE, N + 1))

----------------------------------------------------------------------------
(* C26: samples and resets under a fixed threshold (SpecRuns) *)

\* C26: with the threshold fixed at N >= 1, whenever an update returns Pressed
\* (respectively Released), at least N updates came before it since
\* construction or the last reset, and its sample and the N samples fed
\* immediately before it were all false (respectively all true).
C26_CommitHasFullRun ==
    N >= 1 =>
        \A j \in 1 .. Len(hist) :
            /\ Ret(j) = "Pressed" => (j - N >= 1 /\ AllSame(j - N, j, FALSE))
            /\ Ret(j) = "Released" => (j - N >= 1 /\ AllSame(j - N, j, TRUE))

\* C26 witness: with a threshold of 3, a released sample and four pressed ones
\* have committed a press on the fifth call and four released ones after them
\* the release on the ninth.
C26_Witness ==
    /\ op = "update"
    /\ event = "Released"
    /\ N = 3
    /\ hist0.state = "Released"
    /\ Len(hist) = 9
    /\ Ret(5) = "Pressed"
    /\ Sample(1) /\ AllSame(2, 5, FALSE) /\ AllSame(6, 9, TRUE)

----------------------------------------------------------------------------
(* C27..C28: every public operation, in any order (Spec) *)

\* C27: immediately after every update call, debounce_count >=
\* debounce_threshold implies state = raw_state, whatever setter or reset calls
\* came before that update.
C27_NoPendingMismatch ==
    op = "update" =>
        (ctrl.debounce_count >= ctrl.debounce_threshold
            => ctrl.state = ctrl.raw_state)

\* C27 witness: an update found a pressed run of two pending under a threshold
\* that had been lowered to 1, and has committed it with the count left at 2.
C27_Witness ==
    /\ op = "update"
    /\ event = "Pressed"
    /\ ctrl.debounce_threshold = 1
    /\ ctrl.debounce_count = 2
    /\ ctrl.state = "Pressed"
    /\ ctrl.raw_state = "Pressed"

\* the update call of this step receives a sample equal to raw_state while a
\* change is pending (raw_state differs from state)
PendingSample ==
    /\ op' = "update"
    /\ gpio_to_button_state(args'.gpio_level) = ctrl.raw_state
    /\ ctrl.raw_state # ctrl.state

\* C28: set_debounce_threshold keeps debounce_count as it is; an update that
\* receives a sample equal to raw_state while raw_state differs from state and
\* debounce_count is already at or above the threshold in force commits the
\* change and returns the edge event without incrementing debounce_count; and
\* while the count is below the threshold in force, such an update commits
\* only if its increment reaches that threshold, and otherwise returns None
\* and leaves the state as it was.
C28_ThresholdChange ==
    /\ [][ op' = "set_debounce_threshold" =>
             /\ ctrl'.debounce_count = ctrl.debounce_count
             /\ ctrl'.debounce_threshold = args'.threshold ]_vars
    /\ [][ (PendingSample /\ ctrl.debounce_count >= ctrl.debounce_threshold)
           => /\ Commits
              /\ ctrl'.debounce_count = ctrl.debounce_count ]_vars
    /\ [][ (PendingSample /\ ctrl.debounce_count < ctrl.debounce_threshold)
           => /\ ctrl'.debounce_count = ctrl.debounce_count + 1
              /\ ctrl.debounce_count + 1 >= ctrl.debounce_threshold => Commits
              /\ ctrl.debounce_count + 1 < ctrl.debounce_threshold =>
                     (event' = "None" /\ ctrl'.state = ctrl.state) ]_vars

\* C28 witness: a pressed run had reached a count of 1 under a threshold of 2
\* or more; with the threshold now at 0 the next pressed sample has committed
\* the press and left the count at 1.
C28_Witness ==
    /\ op = "update"
    /\ event = "Pressed"
    /\ ctrl.debounce_threshold = 0
    /\ ctrl.debounce_count = 1
    /\ Len(hist) = 3
    /\ AllSame(1, 3, FALSE)
    /\ Ret(2) = "None"
    /\ Snap(2).debounce_count = 1
    /\ Snap(2).state = "Released"

----------------------------------------------------------------------------
(* C29: a reset controller next to a fresh one (SpecReset) *)

\* C29: reset leaves debounce_threshold and debounce_delay_ms unchanged, and
\* from the reset on the controller equals, field by field and after every
\* update, a controller built at that moment by with_debounce from its
\* debounce_delay_ms and debounce_threshold and fed the same samples, and
\* returns the same event from every update.
C29_ResetIsFresh ==
    /\ [](twin.live =>
              /\ ctrl = twin.ctrl
              /\ op = "update" => event = twin.ret
              /\ op = "reset" =>
                     ctrl = with_debounce(ctrl.debounce_delay_ms,
                                          ctrl.debounce_threshold))
    /\ [][ op' = "reset" =>
             /\ ctrl'.debounce_threshold = ctrl.debounce_threshold
             /\ ctrl'.debounce_delay_ms = ctrl.debounce_delay_ms ]_vars

\* C29 witness: a controller reset with a threshold of 1 and a delay of 100 ms
\* and the controller built from that configuration have both returned
\* Pressed and then Released.
C29_Witness ==
    /\ twin.live
    /\ op = "update"
    /\ ctrl.debounce_threshold = 1
    /\ ctrl.debounce_delay_ms = 100
    /\ Len(hist) = 4
    /\ Ret(2) = "Pressed"
    /\ event = "Released"
    /\ twin.ret = "Released"
    /\ twin.ctrl.press_count = 1

----------------------------------------------------------------------------
(* C30: every public operation, in any order (Spec) *)

\* C30: update never changes debounce_threshold or debounce_delay_ms;
\* set_debounce_delay changes only debounce_delay_ms and set_debounce_threshold
\* only debounce_threshold, so neither changes state, raw_state,
\* debounce_count, press_count or led_state; and state and led_state change
\* only in update or reset.
C30_Frame ==
    /\ [][ op' = "update" =>
             /\ ctrl'.debounce_threshold = ctrl.debounce_threshold
             /\ ctrl'.debounce_delay_ms = ctrl.debounce_delay_ms ]_vars
    /\ [][ op' = "set_debounce_delay" =>
             ctrl' = [ctrl EXCEPT !.debounce_delay_ms = ctrl'.debounce_delay_ms]
         ]_vars
    /\ [][ op' = "set_debounce_threshold" =>
             ctrl' = [ctrl EXCEPT !.debounce_threshold = ctrl'.debounce_threshold]
         ]_vars
    /\ [][ (ctrl'.state # ctrl.state \/ ctrl'.led_state # ctrl.led_state)
             => op' \in {"update", "reset"} ]_vars

\* C30 witness: set_debounce_delay(1000) was called on a controller that is
\* Pressed with the LED On, one press counted and a released run of one
\* pending, and all of that is as the last update left it.
C30_Witness ==
    /\ op = "set_debounce_delay"
    /\ args.delay_ms = 1000
    /\ ctrl.debounce_delay_ms = 100
    /\ Len(hist) >= 1
    /\ Observe(ctrl) = Snap(Len(hist))
    /\ ctrl.state = "Pressed"
    /\ ctrl.led_state = "On"
    /\ ctrl.raw_state = "Released"
    /\ ctrl.debounce_count = 1
    /\ ctrl.press_count = 1

====
